---- MODULE Spec2Model ----
(***************************************************************************)
(* The hex view of qclipx (src/qclipx/qclipx.py: MyChunk, MyChunks,        *)
(* MyHexView) as a state machine.  The state is the view's fields, the two *)
(* scroll bars and the viewport size; the actions are the event handlers.  *)
(* Python indexes rows and columns from 0, TLA+ sequences from 1: row r of *)
(* the code is chunks[r + 1] here.                                         *)
(***************************************************************************)
EXTENDS Integers, Sequences, FiniteSets, TLC

VARIABLES
    data,          \* MyChunks._data: the bytes shown (<<>> before any showData)
    chunks,        \* MyChunks._chunks: one MyChunk record per row
    cursorPos,     \* MyHexView._cursorPos, [x |-> column, y |-> row]
    isInAscii,     \* MyHexView._isInAscii
    selEndPos,     \* MyHexView._selEndPos, (-1,-1) means no selection
    vValue, vMax,  \* verticalScrollBar(): value and maximum (minimum is 0)
    hValue, hMax,  \* horizontalScrollBar(): value and maximum (minimum is 0)
    vpW, vpH,      \* viewport().width(), viewport().height()
    lastEvent,     \* history: the event handled last ("mouseMove": a move with
                   \* the left button held, "mouseMoveOther": one without)
    painted        \* the draw operations of the last handler, in order

vars == <<data, chunks, cursorPos, isInAscii, selEndPos,
          vValue, vMax, hValue, hMax, vpW, vpH, lastEvent, painted>>

----------------------------------------------------------------------------
(* Bounds of the model and values supplied by the environment.             *)

\* largest buffer shown (4 rows, the last one short)
MaxSize == 51
\* largest value a scroll event moves the horizontal bar to
MaxHScroll == 1
\* logicalDotsPerInchX() of the screen: the 96-DPI baseline
defaultDpiX == 96
\* fontMetrics().horizontalAdvance('F') of the fixed font
charW == 8
\* fontMetrics().height() of the fixed font
fontHeight == 13

Min(a, b) == IF a < b THEN a ELSE b
Max(a, b) == IF a > b THEN a ELSE b

\* Python's int(a / b) for b > 0: the quotient truncated toward zero
TruncDiv(a, b) == IF a >= 0 THEN a \div b ELSE -((-a) \div b)

\* math.ceil(a / b) for a >= 0, b > 0
Ceil(a, b) == (a + b - 1) \div b

dpiScaled(value) == (value * defaultDpiX) \div 96

QPoint(x, y) == [x |-> x, y |-> y]
QRect(x, y, w, h) == [x |-> x, y |-> y, w |-> w, h |-> h]
NoSel == QPoint(-1, -1)

----------------------------------------------------------------------------
(* MyHexView.__init__: the geometry                                         *)

hexPerRow == 16
charH == fontHeight + dpiScaled(3)
adrSepX == charW * 9
hexStartX == adrSepX + charW
hexSepX == hexStartX + charW * (4 * hexPerRow - 1)
asciiStartX == hexSepX + charW

----------------------------------------------------------------------------
(* MyChunk and MyChunks                                                     *)

HexLower == <<"0", "1", "2", "3", "4", "5", "6", "7",
              "8", "9", "a", "b", "c", "d", "e", "f">>
HexUpper == <<"0", "1", "2", "3", "4", "5", "6", "7",
              "8", "9", "A", "B", "C", "D", "E", "F">>

\* QByteArray.toHex: two lowercase digits per byte, concatenated
toHex(bytes) ==
    [k \in 1..(2 * Len(bytes)) |->
        IF k % 2 = 1 THEN HexLower[(bytes[(k + 1) \div 2] \div 16) + 1]
        ELSE HexLower[(bytes[k \div 2] % 16) + 1]]

\* QByteArray.toUpper: the letters a..f of a hex string become A..F
UpperOf == [ch \in {HexLower[k] : k \in 1..16} |->
               HexUpper[CHOOSE k \in 1..16 : HexLower[k] = ch]]
toUpper(str) == [k \in 1..Len(str) |-> UpperOf[str[k]]]

\* QByteArray.mid(pos, len): at most len bytes, starting at pos (0-based)
mid(bytes, pos, len) ==
    IF pos >= Len(bytes) THEN <<>>
    ELSE SubSeq(bytes, pos + 1, Min(pos + len, Len(bytes)))

\* MyChunk._createHexList: the slices [i : i + 2] for i in range(0, len, 2)
createHexList(str) ==
    [k \in 1..Ceil(Len(str), 2) |->
        SubSeq(str, 2 * (k - 1) + 1, Min(2 * (k - 1) + 2, Len(str)))]

\* MyChunk.__init__: _data, _readed, and as history the number of setData
\* calls the chunk has seen
EmptyChunk == [readed |-> FALSE, data |-> <<>>, sets |-> 0]

\* MyChunk.setData
setData(self, bytes) ==
    [readed |-> TRUE, data |-> createHexList(toUpper(toHex(bytes))),
     sets |-> self.sets + 1]

\* mutant of createEmptyChunks: the row count rounded down
createEmptyChunksFloor(bytes) == [i \in 1..(Len(bytes) \div hexPerRow) |-> EmptyChunk]

\* MyChunks._createEmptyChunks
createEmptyChunks(bytes) == [i \in 1..Ceil(Len(bytes), hexPerRow) |-> EmptyChunk]

\* mutant of getitem: the row is decoded on every read
getitemEveryRead(chs, bytes, index) ==
    [chs EXCEPT ![index + 1] = setData(@, mid(bytes, index * hexPerRow, hexPerRow))]

\* MyChunks.__getitem__(index): the chunk list after the read of row index
getitem(chs, bytes, index) ==
    IF chs[index + 1].readed THEN chs
    ELSE [chs EXCEPT ![index + 1] =
             setData(@, mid(bytes, index * hexPerRow, hexPerRow))]

\* len(self._chunks[r]) as the caller sees it: the row is decoded by the read
lenRow(chs, bytes, r) == Len(getitem(chs, bytes, r)[r + 1].data)

----------------------------------------------------------------------------
(* QAbstractSlider.setRange(0, max): the maximum is at least the minimum    *)
(* and the value is bounded into the new range, not reset.                  *)

setRangeMax(max) == Max(0, max)
\* mutant of setRangeValue: the value is left where it was
setRangeValueKeeps(value, max) == value

setRangeValue(value, max) == Min(value, setRangeMax(max))

\* rowShown of _adjust and paintEvent: int((height - charH / 4) / charH)
rowShownFor(height) == TruncDiv(4 * height - charH, 4 * charH)

----------------------------------------------------------------------------
(* MyHexView: the coordinate mapper                                         *)

\* MyHexView._rcToPos
rcToPos(rcPoint, isAscii) ==
    LET x == IF isAscii THEN asciiStartX + rcPoint.x * charW
             ELSE hexStartX + rcPoint.x * 4 * charW
        y == rcPoint.y * charH
    IN  QPoint(x - dpiScaled(1), y + dpiScaled(4))

\* the column _posToRC computes from pos.x() before any clamping
rawColumn(px) ==
    IF px >= hexSepX THEN TruncDiv(px - asciiStartX, charW)
    ELSE TruncDiv(px + 2 * charW - hexStartX, charW * 4)

\* the row _posToRC computes from pos.y() before any clamping
rawRow(py, v) == TruncDiv(py - dpiScaled(5), charH) + v

\* the row after clamping: the last row for r >= row, row 0 for r < 0
clampRow(r, row) == IF r >= row THEN row - 1 ELSE IF r < 0 THEN 0 ELSE r

\* the column where the row was too large: 0 for c < 0, else the last column
\* of the last row, which holds n bytes
clampBelow(c, r, row, n) == IF r >= row THEN (IF c < 0 THEN 0 ELSE n - 1) ELSE c

\* mutant of clampColumn: only negative columns are clamped
clampColumnLowOnly(c, n) == IF c < 0 THEN 0 ELSE c

\* the final clamping of the column into a row of n bytes
clampColumn(c, n) == IF c >= n THEN n - 1 ELSE IF c < 0 THEN 0 ELSE c

\* MyHexView._posToRC with the row count and, for the row the pointer maps
\* to, the length len(self._chunks[r]) the reads return
posToRCIn(px, py, v, row, n) ==
    [rc |-> QPoint(clampColumn(clampBelow(rawColumn(px), rawRow(py, v), row, n), n),
                   clampRow(rawRow(py, v), row)),
     isAscii |-> px >= hexSepX]

\* MyHexView._posToRC on a non-empty buffer: [rc, isAscii]
posToRC(px, py, chs, bytes, v) ==
    posToRCIn(px, py, v, Len(chs),
              lenRow(chs, bytes, clampRow(rawRow(py, v), Len(chs))))

\* mutant of normalRC: the two ends are left in the order given
normalRCNoSwap(rc1, rc2) == <<rc1, rc2>>

\* mutant of normalRC: the ends are ordered by row alone
normalRCRowsOnly(rc1, rc2) == IF rc1.y > rc2.y THEN <<rc2, rc1>> ELSE <<rc1, rc2>>

\* MyHexView._normalRC: <<begin, end>>
normalRC(rc1, rc2) ==
    IF rc1.y = rc2.y
    THEN IF rc1.x > rc2.x THEN <<rc2, rc1>> ELSE <<rc1, rc2>>
    ELSE IF rc1.y > rc2.y THEN <<rc2, rc1>> ELSE <<rc1, rc2>>

\* mutant of calcWidth: the ASCII width in both panes
calcWidthOneGlyph(n, inAscii) == (n + 1) * charW

\* MyHexView._calcWidth
calcWidth(n, inAscii) ==
    IF inAscii THEN (n + 1) * charW ELSE (2 * n + 1) * 2 * charW

\* MyHexView._rcToRect(begin, end, isInAscii) under scroll values h and v
rcToRect(begin, end, inAscii, h, v) ==
    LET startX == IF inAscii THEN asciiStartX ELSE hexStartX
        offsetX == h * charW + dpiScaled(1)
        offsetY == v * charH - dpiScaled(4)
        offsetW == dpiScaled(2)
        offsetH == dpiScaled(1)
        posBegin == normalRC(begin, end)[1]
        posEnd == normalRC(begin, end)[2]
        x == IF inAscii THEN asciiStartX + posBegin.x * charW
             ELSE hexStartX + posBegin.x * 4 * charW
        y == posBegin.y * charH
        r == posBegin.y + 1
        first == QRect(x - offsetX, y - offsetY,
                       calcWidth(hexPerRow - posBegin.x - 1, inAscii) + offsetW,
                       charH + offsetH)
        middle == QRect(startX - offsetX, r * charH - offsetY,
                        calcWidth(hexPerRow - 1, inAscii) + offsetW,
                        charH * (posEnd.y - r) + offsetH)
        last == QRect(startX - offsetX, posEnd.y * charH - offsetY,
                      calcWidth(posEnd.x, inAscii) + offsetW, charH + offsetH)
    IN  IF posEnd.y = posBegin.y
        THEN <<QRect(x - offsetX, y - offsetY,
                     calcWidth(posEnd.x - posBegin.x, inAscii) + offsetW,
                     charH + offsetH)>>
        ELSE <<first>> \o (IF r < posEnd.y THEN <<middle>> ELSE <<>>) \o <<last>>

----------------------------------------------------------------------------
(* MyHexView._adjust: the scroll bar ranges after a load or a resize        *)

\* mutant of adjustChunks: every row of the buffer is decoded
adjustChunksEager(chs, bytes) ==
    [i \in 1..Len(chs) |->
        IF chs[i].readed THEN chs[i]
        ELSE setData(chs[i], mid(bytes, (i - 1) * hexPerRow, hexPerRow))]

\* len(self._chunks[0]) decodes row 0 of a non-empty buffer
adjustChunks(chs, bytes) == IF Len(chs) > 0 THEN getitem(chs, bytes, 0) ELSE chs

adjustWidth(chs, bytes) ==
    asciiStartX + (IF Len(chs) > 0 THEN lenRow(chs, bytes, 0) * charW ELSE 0)

adjustHMax(chs, bytes, width) == setRangeMax(adjustWidth(chs, bytes) - width)
adjustVMax(chs, height) == setRangeMax(Len(chs) - rowShownFor(height))

----------------------------------------------------------------------------
(* MyHexView.paintEvent: the draw operations, in the order they are issued  *)

\* chr(n) for n in 0x20..0x7E; chr(0x60), which a TLA+ string cannot hold,
\* is written as the string "U+0060"
AsciiChars ==
    <<" ", "!", "\"", "#", "$", "%", "&", "'", "(", ")", "*", "+", ",", "-", ".", "/",
      "0", "1", "2", "3", "4", "5", "6", "7", "8", "9", ":", ";", "<", "=", ">", "?",
      "@", "A", "B", "C", "D", "E", "F", "G", "H", "I", "J", "K", "L", "M", "N", "O",
      "P", "Q", "R", "S", "T", "U", "V", "W", "X", "Y", "Z", "[", "\\", "]", "^", "_",
      "U+0060", "a", "b", "c", "d", "e", "f", "g", "h", "i", "j", "k", "l", "m", "n", "o",
      "p", "q", "r", "s", "t", "u", "v", "w", "x", "y", "z", "{", "|", "}", "~">>

\* the value of one hex digit, as int(hex, 16) reads it (either case)
digitValue(ch) == (CHOOSE k \in 1..16 : HexUpper[k] = ch \/ HexLower[k] = ch) - 1

\* int(hex, 16) of a two-digit token
intHex(hex) == digitValue(hex[1]) * 16 + digitValue(hex[2])

\* mutant of asciiChar: 0x7E is taken for an invisible character
asciiCharTildeHidden(hex) ==
    LET n == intHex(hex)
    IN  IF n >= 126 \/ n < 32 THEN "." ELSE AsciiChars[n - 31]

\* the character _drawAscii draws for a token
asciiChar(hex) ==
    LET n == intHex(hex)
    IN  IF n > 126 \/ n < 32 THEN "." ELSE AsciiChars[n - 31]

\* "%08X" % n
RECURSIVE fmtX(_, _)
fmtX(n, width) ==
    IF width = 0 THEN <<>>
    ELSE Append(fmtX(n \div 16, width - 1), HexUpper[(n % 16) + 1])

\* one draw operation: the part of the view it belongs to, the QPainter call,
\* the call's integer arguments and the text drawn
DrawOp(part, call, args, text) ==
    [part |-> part, call |-> call, args |-> args, text |-> text]

RECURSIVE Flatten(_)
Flatten(seqs) == IF seqs = <<>> THEN <<>> ELSE Head(seqs) \o Flatten(Tail(seqs))

\* rowShown of paintEvent
paintRowShown(chs, height) == Min(rowShownFor(height), Len(chs))

\* the fillRect calls of paintEvent for the selection: ASCII pane, then hex pane
drawSelection(cur, sel, h, v) ==
    Flatten([p \in 1..2 |->
        LET rects == rcToRect(cur, sel, p = 1, h, v)
        IN  [k \in 1..Len(rects) |->
                DrawOp("selection", "fillRect",
                       <<rects[k].x, rects[k].y, rects[k].w, rects[k].h>>, <<>>)]])

\* MyHexView._drawAdr
drawAdr(row, offsetX, v) ==
    [i \in 1..row |->
        DrawOp("adr", "drawText", <<0 - offsetX, charH * i>>,
               fmtX(v * hexPerRow + (i - 1) * hexPerRow, 8))]
    \o <<DrawOp("adrSep", "drawLine",
                <<adrSepX - offsetX, 0, adrSepX - offsetX, row * charH>>, <<>>)>>

\* MyHexView._drawHex with _drawAscii, on the chunk list after its reads
drawHex(chs, row, offsetX, v) ==
    Flatten([i \in 1..row |->
        Flatten([k \in 1..Len(chs[i + v].data) |->
            <<DrawOp("hex", "drawText",
                     <<hexStartX + (k - 1) * charW * 4 - offsetX, charH * i>>,
                     chs[i + v].data[k]),
              DrawOp("ascii", "drawText",
                     <<asciiStartX + (k - 1) * charW - offsetX, charH * i>>,
                     <<asciiChar(chs[i + v].data[k])>>)>>])])
    \o <<DrawOp("hexSep", "drawLine",
                <<hexSepX - offsetX, 0, hexSepX - offsetX, row * charH>>, <<>>)>>

\* MyHexView._drawCursor: the caret line and the underline in each pane
drawCursor(cur, inAscii, offsetX, offsetY) ==
    LET pos == rcToPos(cur, inAscii)
        other == rcToPos(cur, ~inAscii)
        w(a) == IF a THEN charW ELSE 2 * charW
        x == pos.x - offsetX
        y == pos.y - offsetY
        ux == pos.x - offsetX + dpiScaled(1)
        uy == pos.y + charH - offsetY
        ox == other.x - offsetX + dpiScaled(1)
        oy == other.y + charH - offsetY
    IN  <<DrawOp("caret", "drawLine", <<x, y, x, y + charH>>, <<>>),
          DrawOp("caret", "drawLine", <<ux, uy, ux + w(inAscii), uy>>, <<>>),
          DrawOp("caret", "drawLine", <<ox, oy, ox + w(~inAscii), oy>>, <<>>)>>

\* the rows paintEvent reads through MyChunks.__getitem__: r .. r + rowShown - 1
RECURSIVE readRows(_, _, _, _)
readRows(chs, bytes, first, count) ==
    IF count = 0 THEN chs
    ELSE readRows(getitem(chs, bytes, first), bytes, first + 1, count - 1)

\* mutant of paintOps: the caret is drawn whether or not there is a selection
paintOpsCaretAlways(chs, cur, inAscii, sel, h, v, height) ==
    (IF sel # NoSel THEN drawSelection(cur, sel, h, v) ELSE <<>>)
    \o drawAdr(paintRowShown(chs, height), h * charW, v)
    \o drawHex(chs, paintRowShown(chs, height), h * charW, v)
    \o drawCursor(cur, inAscii, h * charW, v * charH)

\* mutant of paintOps: the selection is filled after the text is drawn
paintOpsSelectionLast(chs, cur, inAscii, sel, h, v, height) ==
    drawAdr(paintRowShown(chs, height), h * charW, v)
    \o drawHex(chs, paintRowShown(chs, height), h * charW, v)
    \o (IF sel # NoSel THEN drawSelection(cur, sel, h, v) ELSE <<>>)
    \o (IF sel = NoSel THEN drawCursor(cur, inAscii, h * charW, v * charH) ELSE <<>>)

\* MyHexView.paintEvent on a non-empty buffer: every draw operation in order
paintOps(chs, cur, inAscii, sel, h, v, height) ==
    LET rowShown == paintRowShown(chs, height)
        offsetX == h * charW
        offsetY == v * charH
    IN  (IF sel # NoSel THEN drawSelection(cur, sel, h, v) ELSE <<>>)
        \o drawAdr(rowShown, offsetX, v)
        \o drawHex(chs, rowShown, offsetX, v)
        \o (IF sel = NoSel THEN drawCursor(cur, inAscii, offsetX, offsetY) ELSE <<>>)

----------------------------------------------------------------------------
(* The inputs of the handlers                                               *)

\* the byte at offset i (from 0) of the buffer of a given size
byteAt(size, i) == (size * 7 + i * 37) % 256

\* the buffers handed to showData: empty, one short row, one full row, a full
\* row and one byte, two full rows, and the largest one
DataSizes == {0, 3, hexPerRow, hexPerRow + 1, 2 * hexPerRow, MaxSize}
BufferOf(n) == [i \in 1..n |-> byteAt(n, i - 1)]
Buffers == {BufferOf(n) : n \in DataSizes}

\* pixel columns: left of the window, in the address column, on hex columns
\* 2 and 5, and right of the content (in the ASCII pane)
xLeft == -(charW + 1)
xAdr == 5 * charW
xHex2 == hexStartX + 8 * charW + 3
xHex5 == hexStartX + 20 * charW
xRight == asciiStartX + 20 * charW
\* pixel rows: above the window, on the first three rows shown, far below
yAbove == -(2 * charH + 8)
yRow0 == dpiScaled(5) + 1
yRow1 == charH + 9
yRow2 == 2 * charH + 5
yBelow == 10 * charH

\* the pointer positions <<x, y>> of press and move events
PointerPositions ==
    {<<xLeft, yAbove>>, <<xHex2, yRow0>>, <<xHex5, yRow0>>, <<xRight, yRow0>>,
     <<xAdr, yRow1>>, <<xHex5, yRow1>>, <<xRight, yRow1>>, <<xHex2, yRow2>>,
     <<xLeft, yBelow>>, <<xAdr, yBelow>>, <<xRight, yBelow>>}
PointerXs == {pos[1] : pos \in PointerPositions}
PointerYs == {pos[2] : pos \in PointerPositions}

\* viewport sizes <<width, height>>: narrower than the content with two rows
\* shown, and wider than the content with more rows than any buffer has
ViewSizes == {<<400, 40>>, <<800, 120>>}

----------------------------------------------------------------------------
(* The state machine                                                        *)

Init ==
    /\ data = <<>>
    /\ chunks = <<>>
    /\ cursorPos = QPoint(0, 0)
    /\ isInAscii = FALSE
    /\ selEndPos = NoSel
    /\ vValue = 0 /\ vMax = 0
    /\ hValue = 0 /\ hMax = 0
    /\ vpW = 800 /\ vpH = 120
    /\ lastEvent = "init"
    /\ painted = <<>>

\* MyHexView._adjust with the chunk list chs, the buffer bytes and a viewport
Adjust(chs, bytes, width, height) ==
    \E read \in {adjustChunks(chs, bytes)} :
        /\ chunks' = read
        /\ hMax' = adjustHMax(read, bytes, width)
        /\ hValue' = setRangeValue(hValue, adjustWidth(read, bytes) - width)
        /\ vMax' = adjustVMax(read, height)
        /\ vValue' = setRangeValue(vValue, Len(read) - rowShownFor(height))

\* mutant of ShowData: the cursor is left where it was
ShowDataKeepsCursor(bytes) ==
    /\ data' = bytes
    /\ selEndPos' = NoSel
    /\ Adjust(createEmptyChunks(bytes), bytes, vpW, vpH)
    /\ lastEvent' = "showData"
    /\ painted' = <<>>
    /\ UNCHANGED <<cursorPos, isInAscii, vpW, vpH>>

\* MyHexView.showData(bytes)
ShowData(bytes) ==
    /\ data' = bytes
    /\ cursorPos' = QPoint(0, 0)
    /\ selEndPos' = NoSel
    /\ Adjust(createEmptyChunks(bytes), bytes, vpW, vpH)
    /\ lastEvent' = "showData"
    /\ painted' = <<>>
    /\ UNCHANGED <<isInAscii, vpW, vpH>>

\* MyHexView.mousePressEvent at pixel (px, py)
MousePress(px, py) ==
    /\ IF Len(chunks) = 0
       THEN UNCHANGED <<chunks, cursorPos, isInAscii, selEndPos>>
       ELSE \E chs \in {getitem(chunks, data, clampRow(rawRow(py, vValue), Len(chunks)))} :
            \E res \in {posToRC(px, py, chs, data, vValue)} :
                /\ selEndPos' = NoSel
                /\ cursorPos' = res.rc
                /\ isInAscii' = res.isAscii
                /\ chunks' = chs
    /\ lastEvent' = "mousePress"
    /\ painted' = <<>>
    /\ UNCHANGED <<data, vValue, vMax, hValue, hMax, vpW, vpH>>

\* MyHexView.mouseMoveEvent at pixel (px, py), left button held or not
MouseMove(px, py, left) ==
    /\ IF Len(chunks) > 0 /\ left
       THEN \E chs \in {getitem(chunks, data, clampRow(rawRow(py, vValue), Len(chunks)))} :
            \E res \in {posToRC(px, py, chs, data, vValue)} :
                /\ selEndPos' = res.rc
                /\ chunks' = chs
       ELSE UNCHANGED <<chunks, selEndPos>>
    /\ lastEvent' = IF left THEN "mouseMove" ELSE "mouseMoveOther"
    /\ painted' = <<>>
    /\ UNCHANGED <<data, cursorPos, isInAscii, vValue, vMax, hValue, hMax, vpW, vpH>>

\* MyHexView.resizeEvent: the viewport has its new size, _adjust runs
Resize(width, height) ==
    /\ vpW' = width
    /\ vpH' = height
    /\ Adjust(chunks, data, width, height)
    /\ lastEvent' = "resize"
    /\ painted' = <<>>
    /\ UNCHANGED <<data, cursorPos, isInAscii, selEndPos>>

\* the user moves the vertical scroll bar to a value of its range
ScrollV(value) ==
    /\ value \in 0..vMax
    /\ value # vValue
    /\ vValue' = value
    /\ lastEvent' = "scroll"
    /\ painted' = <<>>
    /\ UNCHANGED <<data, chunks, cursorPos, isInAscii, selEndPos,
                   vMax, hValue, hMax, vpW, vpH>>

\* the user moves the horizontal scroll bar to a value of its range
ScrollH(value) ==
    /\ value \in 0..Min(hMax, MaxHScroll)
    /\ value # hValue
    /\ hValue' = value
    /\ lastEvent' = "scroll"
    /\ painted' = <<>>
    /\ UNCHANGED <<data, chunks, cursorPos, isInAscii, selEndPos,
                   vValue, vMax, hMax, vpW, vpH>>

\* MyHexView.paintEvent
Paint ==
    /\ IF Len(chunks) = 0
       THEN /\ painted' = <<>>
            /\ UNCHANGED chunks
       ELSE \E chs \in {readRows(chunks, data, vValue, paintRowShown(chunks, vpH))} :
                /\ chunks' = chs
                /\ painted' = paintOps(chs, cursorPos, isInAscii, selEndPos,
                                       hValue, vValue, vpH)
    /\ lastEvent' = "paint"
    /\ UNCHANGED <<data, cursorPos, isInAscii, selEndPos,
                   vValue, vMax, hValue, hMax, vpW, vpH>>

Next ==
    \/ \E bytes \in Buffers : ShowData(bytes)
    \/ \E pos \in PointerPositions : MousePress(pos[1], pos[2])
    \/ \E pos \in PointerPositions, left \in BOOLEAN : MouseMove(pos[1], pos[2], left)
    \/ \E size \in ViewSizes : Resize(size[1], size[2])
    \/ \E value \in 0..MaxSize : ScrollV(value)
    \/ \E value \in 0..MaxHScroll : ScrollH(value)
    \/ Paint

Spec == Init /\ [][Next]_vars

----------------------------------------------------------------------------
(* Properties                                                               *)

rowCount == Len(chunks)

\* the number of bytes of the buffer that lie in row r
bytesInRow(r) == IF r < rowCount - 1 THEN hexPerRow ELSE Len(data) - r * hexPerRow

\* a coordinate that addresses a byte of the buffer
ValidRC(rc) ==
    /\ 0 <= rc.y /\ rc.y < rowCount
    /\ 0 <= rc.x /\ rc.x < bytesInRow(rc.y)

\* pixel positions probed in addition to the pointer events: from left of the
\* window to right of the content, from above the window to below every row
ProbeXs == {17 * k - 40 : k \in 0..48}
ProbeYs == {13 * k - 30 : k \in 0..12}

\* C1: after showData returns, the cursor is (column 0, row 0) and the
\* selection end is the no-selection sentinel (-1,-1), whatever they were
C1_ShowDataResets ==
    lastEvent = "showData" => cursorPos = QPoint(0, 0) /\ selEndPos = NoSel

\* a load that follows a press in the ASCII pane and a scroll: the press had
\* moved the cursor, showData leaves _isInAscii and the scroll value alone
C1_Witness ==
    /\ lastEvent = "showData"
    /\ isInAscii
    /\ vValue > 0
    /\ cursorPos = QPoint(0, 0)

\* C2: on a non-empty buffer the cursor and, when it is not the sentinel, the
\* selection end address a byte of the buffer: 0 <= row < rowCount and
\* 0 <= column < number of bytes in that row; so does the coordinate of
\* every probed pixel position, negative and outside the viewport included
\* (the mapping reads the buffer and the vertical scroll value alone, and a
\* load leaves the scroll value within its range, so the states that follow
\* a load show every pair of the two)
C2_CoordinatesValid ==
    rowCount > 0 =>
        /\ ValidRC(cursorPos)
        /\ selEndPos # NoSel => ValidRC(selEndPos)
        /\ lastEvent = "showData" =>
               \A px \in ProbeXs, py \in ProbeYs :
                   ValidRC(posToRC(px, py, chunks, data, vValue).rc)

\* a selection dragged from the last byte of the short last row
C2_Witness ==
    /\ Len(data) = MaxSize
    /\ lastEvent = "mouseMove"
    /\ cursorPos = QPoint(bytesInRow(rowCount - 1) - 1, rowCount - 1)
    /\ bytesInRow(rowCount - 1) < hexPerRow
    /\ selEndPos # NoSel /\ selEndPos.y < cursorPos.y
    /\ vValue > 0

\* _rcToPos, then _posToRC on the resulting pixel position
roundTrip(rc, inAscii) ==
    posToRC(rcToPos(rc, inAscii).x, rcToPos(rc, inAscii).y, chunks, data, vValue)

\* C3 as claimed: the coordinate and pane a press returned are a fixed point
\* of _rcToPos followed by _posToRC (unscrolled view, where every coordinate
\* is the image of a pixel position inside its row)
C3_RoundTripFixedPoint ==
    (lastEvent = "mousePress" /\ rowCount > 0 /\ vValue = 0) =>
        roundTrip(cursorPos, isInAscii) = [rc |-> cursorPos, isAscii |-> isInAscii]

\* C4 as claimed: a position below the last row maps to the last column of the
\* last row when x is right of the row's content, and to column 0 of the last
\* row when x is left of the first byte of the hex pane
C4_BelowLastRow ==
    rowCount > 0 =>
        \A px \in PointerXs \cup ProbeXs, py \in PointerYs \cup ProbeYs :
            rawRow(py, vValue) >= rowCount =>
                /\ px >= asciiStartX + bytesInRow(rowCount - 1) * charW =>
                       posToRC(px, py, chunks, data, vValue).rc =
                           QPoint(bytesInRow(rowCount - 1) - 1, rowCount - 1)
                /\ px < hexStartX =>
                       posToRC(px, py, chunks, data, vValue).rc =
                           QPoint(0, rowCount - 1)

\* C5 as claimed: after showData returns both scroll values are 0
C5_ShowDataResetsScroll ==
    lastEvent = "showData" => vValue = 0 /\ hValue = 0

\* the last paint drew an operation of the given part
HasPart(part) == \E k \in 1..Len(painted) : painted[k].part = part

\* the left edge, before the horizontal scroll offset, of a fillRect drawn
\* for the selection
SelectionLefts ==
    {painted[k].args[1] + hValue * charW + dpiScaled(1) :
        k \in {j \in 1..Len(painted) : painted[j].part = "selection"}}

\* the last paint drew the caret and no highlight rectangle
PaintedCursorMode == HasPart("caret") /\ ~HasPart("selection")

\* the last paint drew highlight rectangles in both panes and no caret
PaintedSelectionMode ==
    /\ ~HasPart("caret")
    /\ \E x \in SelectionLefts : x >= asciiStartX
    /\ \E x \in SelectionLefts : x >= hexStartX /\ x < hexSepX

\* C6 as claimed: whatever the buffer, a paint in cursor mode (selection end
\* is the sentinel) draws the caret and no highlight, a paint in selection
\* mode draws highlights in both panes and no caret
C6_PaintByModeAnyBuffer ==
    lastEvent = "paint" =>
        IF selEndPos = NoSel THEN PaintedCursorMode ELSE PaintedSelectionMode

\* the paint of a non-empty buffer draws what the mode asks for; the paint of
\* an empty buffer draws nothing
C6_PaintByMode ==
    lastEvent = "paint" =>
        IF rowCount = 0 THEN painted = <<>> /\ selEndPos = NoSel
        ELSE IF selEndPos = NoSel THEN PaintedCursorMode ELSE PaintedSelectionMode

\* the mode changes of one step
C6_Step ==
    LET leftMove == rowCount > 0 /\ lastEvent' = "mouseMove"
        press == rowCount > 0 /\ lastEvent' = "mousePress"
        load == lastEvent' = "showData"
    IN  /\ leftMove => selEndPos' # NoSel
        /\ press => selEndPos' = NoSel
        /\ load => selEndPos' = NoSel
        /\ ~(leftMove \/ press \/ load) => ((selEndPos' = NoSel) <=> (selEndPos = NoSel))

\* C6 amended: the selection end is the sentinel (cursor mode) or a coordinate
\* (selection mode); the paint of a non-empty buffer draws the caret and no
\* highlight in cursor mode, highlights in both panes and no caret in
\* selection mode, and the paint of an empty buffer draws nothing; on a
\* non-empty buffer a move with the left button held leaves the view in
\* selection mode and a press in cursor mode, showData goes to cursor mode,
\* and no other event changes the mode
C6_Modes ==
    /\ [](selEndPos = NoSel \/ (selEndPos.x >= 0 /\ selEndPos.y >= 0))
    /\ []C6_PaintByMode
    /\ [][C6_Step]_vars

\* the paint of a selection that spans rows
C6_Witness ==
    /\ lastEvent = "paint"
    /\ selEndPos # NoSel /\ selEndPos.y # cursorPos.y
    /\ PaintedSelectionMode

\* the tokens MyChunks[r] holds for the bytes of row r: per byte its two
\* uppercase hex digits
TokensOfRow(r) ==
    [k \in 1..bytesInRow(r) |->
        <<HexUpper[(data[r * hexPerRow + k] \div 16) + 1],
          HexUpper[(data[r * hexPerRow + k] % 16) + 1]>>]

\* setData ran at most once for every row, and exactly for the rows read;
\* a row that was read holds the uppercase hex pair of each of its bytes
C7_DecodedOnce ==
    \A i \in 1..rowCount :
        /\ chunks[i].sets <= 1
        /\ chunks[i].readed <=> chunks[i].sets = 1
        /\ chunks[i].readed => chunks[i].data = TokensOfRow(i - 1)
        /\ ~chunks[i].readed => chunks[i].data = <<>>

\* between two loads a row that was read stays as it is, whatever reads it
C7_Step ==
    lastEvent' # "showData" =>
        \A i \in 1..rowCount : chunks[i].readed => chunks'[i] = chunks[i]

\* C7: each row of a displayed buffer is decoded at most once: setData runs
\* for row i on its first read only, every later read returns the same token
\* sequence, and each token is the two-character uppercase hex form of its
\* byte
C7_LazyDecodeOnce == []C7_DecodedOnce /\ [][C7_Step]_vars

\* a paint of all rows of a buffer: row 0 had been read by _adjust before
C7_Witness ==
    /\ lastEvent = "paint"
    /\ rowCount > 2
    /\ \A i \in 1..rowCount : chunks[i].readed /\ chunks[i].sets = 1

\* the rows MyChunks builds for a buffer of every size up to MaxSize, each
\* row read once: the count and the lengths of C8
RowsOfEverySize ==
    \A n \in 0..MaxSize :
        LET chs == createEmptyChunks(BufferOf(n))
            rows == IF n = 0 THEN 0 ELSE ((n - 1) \div hexPerRow) + 1
        IN  /\ Len(chs) = rows
            /\ \A r \in 0..(rows - 1) :
                   lenRow(chs, BufferOf(n), r) =
                       (IF r < rows - 1 THEN hexPerRow ELSE n - (rows - 1) * hexPerRow)
            /\ rows > 0 => (n - (rows - 1) * hexPerRow) \in 1..hexPerRow

\* C8: len(MyChunks) is ceil(L / W), 0 for an empty buffer; every row but the
\* last holds W bytes, the last one L - (rowCount-1)*W bytes, a value in 1..W
\* (rows that were read in every state, all rows right after a load; and,
\* before the first load, the rows of a buffer of every size up to MaxSize)
C8_RowCountAndLengths ==
    /\ lastEvent = "init" => RowsOfEverySize
    /\ rowCount = (IF Len(data) = 0 THEN 0 ELSE ((Len(data) - 1) \div hexPerRow) + 1)
    /\ \A r \in 0..(rowCount - 1) :
           (chunks[r + 1].readed \/ lastEvent = "showData") =>
               /\ r < rowCount - 1 => lenRow(chunks, data, r) = hexPerRow
               /\ r = rowCount - 1 =>
                      /\ lenRow(chunks, data, r) = Len(data) - (rowCount - 1) * hexPerRow
                      /\ lenRow(chunks, data, r) \in 1..hexPerRow

\* the largest buffer with all its rows read
C8_Witness ==
    /\ Len(data) = MaxSize
    /\ rowCount > 2
    /\ \A i \in 1..rowCount : chunks[i].readed
    /\ Len(chunks[rowCount].data) < hexPerRow

\* row-major order of two coordinates
Precedes(a, b) == a.y < b.y \/ (a.y = b.y /\ a.x <= b.x)
SelBegin == IF Precedes(cursorPos, selEndPos) THEN cursorPos ELSE selEndPos
SelEnd == IF Precedes(cursorPos, selEndPos) THEN selEndPos ELSE cursorPos

\* rect spans the columns c1..c2 of the rows r1..r2 of a pane, in viewport
\* coordinates, with the margins _rcToRect adds
Spans(rect, c1, c2, r1, r2, inAscii) ==
    LET cell == IF inAscii THEN charW ELSE 4 * charW
        glyphs == IF inAscii THEN charW ELSE 2 * charW
        start == IF inAscii THEN asciiStartX ELSE hexStartX
    IN  /\ rect.x = start + c1 * cell - hValue * charW - dpiScaled(1)
        /\ rect.x + rect.w = start + c2 * cell + glyphs - hValue * charW + dpiScaled(1)
        /\ rect.y = r1 * charH - vValue * charH + dpiScaled(4)
        /\ rect.h = (r2 - r1 + 1) * charH + dpiScaled(1)

\* C9: _rcToRect returns one rectangle when both ends are on one row; else a
\* first-row rectangle from begin.column to the last column of the row width,
\* one merged rectangle for the rows begin.row+1 .. end.row-1 exactly when
\* there is such a row, and a last-row rectangle from column 0 to end.column
C9_RectangleGroups ==
    selEndPos # NoSel =>
        \A inAscii \in BOOLEAN :
            LET rects == rcToRect(cursorPos, selEndPos, inAscii, hValue, vValue)
                b == SelBegin
                e == SelEnd
            IN  IF b.y = e.y
                THEN /\ Len(rects) = 1
                     /\ Spans(rects[1], b.x, e.x, b.y, b.y, inAscii)
                ELSE /\ Len(rects) = (IF e.y - b.y >= 2 THEN 3 ELSE 2)
                     /\ Spans(rects[1], b.x, hexPerRow - 1, b.y, b.y, inAscii)
                     /\ Spans(rects[Len(rects)], 0, e.x, e.y, e.y, inAscii)
                     /\ e.y - b.y >= 2 =>
                            Spans(rects[2], 0, hexPerRow - 1, b.y + 1, e.y - 1, inAscii)

\* a selection dragged upwards over two middle rows, painted
C9_Witness ==
    /\ lastEvent = "paint"
    /\ selEndPos # NoSel
    /\ cursorPos.y - selEndPos.y >= 3
    /\ Len(rcToRect(cursorPos, selEndPos, FALSE, hValue, vValue)) = 3

\* C10 as claimed: the rectangle of a single-row selection over the columns
\* b..e, k = e - b, is (2k+1)*2*charW wide in the hex pane and (k+1)*charW
\* wide in the ASCII pane
C10_WidthAsClaimed ==
    (selEndPos # NoSel /\ selEndPos.y = cursorPos.y) =>
        LET k == SelEnd.x - SelBegin.x
        IN  /\ rcToRect(cursorPos, selEndPos, FALSE, hValue, vValue)[1].w
                   = (2 * k + 1) * 2 * charW
            /\ rcToRect(cursorPos, selEndPos, TRUE, hValue, vValue)[1].w
                   = (k + 1) * charW

\* C10 amended: the rectangle is wider by the margin dpiScaled(2) in both
\* panes: (2k+1)*2*charW + dpiScaled(2) and (k+1)*charW + dpiScaled(2)
C10_WidthWithMargin ==
    (selEndPos # NoSel /\ selEndPos.y = cursorPos.y) =>
        LET k == SelEnd.x - SelBegin.x
        IN  /\ Len(rcToRect(cursorPos, selEndPos, FALSE, hValue, vValue)) = 1
            /\ rcToRect(cursorPos, selEndPos, FALSE, hValue, vValue)[1].w
                   = (2 * k + 1) * 2 * charW + dpiScaled(2)
            /\ rcToRect(cursorPos, selEndPos, TRUE, hValue, vValue)[1].w
                   = (k + 1) * charW + dpiScaled(2)

\* the selection of the columns 2..5 of one row: 14*charW + dpiScaled(2) wide
C10_Witness ==
    /\ selEndPos # NoSel /\ selEndPos.y = cursorPos.y
    /\ cursorPos.x = 2 /\ selEndPos.x = 5
    /\ rcToRect(cursorPos, selEndPos, FALSE, hValue, vValue)[1].w
           = 14 * charW + dpiScaled(2)

\* the coordinates that address a byte of the buffer
ValidCoords ==
    {rc \in {QPoint(c, r) : c \in 0..(hexPerRow - 1), r \in 0..(rowCount - 1)} :
        ValidRC(rc)}

\* C11: under the scroll values of the state, _rcToRect(a, b, pane) and
\* _rcToRect(b, a, pane) are the same rectangles, for the two ends of the
\* selection in every state and, after a load, for every two coordinates
\* that address a byte of the buffer, in either pane
C11_NormalizationSymmetric ==
    /\ selEndPos # NoSel =>
           \A inAscii \in BOOLEAN :
               rcToRect(cursorPos, selEndPos, inAscii, hValue, vValue)
                   = rcToRect(selEndPos, cursorPos, inAscii, hValue, vValue)
    /\ lastEvent = "showData" =>
           \A a \in ValidCoords, b \in ValidCoords, inAscii \in BOOLEAN :
               rcToRect(a, b, inAscii, hValue, vValue)
                   = rcToRect(b, a, inAscii, hValue, vValue)

\* a selection dragged to the left on one row of a scrolled view: the two
\* ends are swapped by _normalRC
C11_Witness ==
    /\ lastEvent = "mouseMove"
    /\ selEndPos # NoSel
    /\ selEndPos.y = cursorPos.y /\ selEndPos.x < cursorPos.x
    /\ vValue > 0
    /\ rcToRect(cursorPos, selEndPos, TRUE, hValue, vValue)[1].w
           = (cursorPos.x - selEndPos.x + 1) * charW + dpiScaled(2)

\* the token MyChunk.setData stores for one byte
tokenOf(b) == createHexList(toUpper(toHex(<<b>>)))[1]

\* the byte an ASCII-column drawText of the last paint stands for: the row
\* and the column are read back from where the text was drawn
byteDrawn(op) ==
    data[((op.args[2] \div charH) - 1 + vValue) * hexPerRow
         + ((op.args[1] + hValue * charW - asciiStartX) \div charW) + 1]

\* the ASCII-column draws of the last paint
AsciiOps == {painted[k] : k \in {j \in 1..Len(painted) : painted[j].part = "ascii"}}

\* the character the claim names for a byte value
PrintableOrDot(b) == IF b >= 32 /\ b <= 126 THEN AsciiChars[b - 31] ELSE "."

\* C12: every ASCII-column text of a paint is the character of its byte for
\* a byte in 0x20..0x7E and "." for any other byte; and, for each of the 256
\* byte values, _drawAscii draws for the byte's token its own character in
\* 0x20..0x7E (95 distinct characters, 0x41 -> "A", 0x7E -> "~") and "."
\* for 0x00..0x1F and 0x7F..0xFF
C12_AsciiMapping ==
    /\ \A op \in AsciiOps : op.text = <<PrintableOrDot(byteDrawn(op))>>
    /\ lastEvent = "init" =>
           /\ \A b \in 0..255 : asciiChar(tokenOf(b)) = PrintableOrDot(b)
           /\ \A b \in (0..31) \cup (127..255) : asciiChar(tokenOf(b)) = "."
           /\ Cardinality({asciiChar(tokenOf(b)) : b \in 32..126}) = 95
           /\ asciiChar(tokenOf(65)) = "A" /\ asciiChar(tokenOf(1)) = "."
           /\ asciiChar(tokenOf(126)) = "~" /\ asciiChar(tokenOf(127)) = "."
           /\ asciiChar(tokenOf(32)) = " " /\ asciiChar(tokenOf(255)) = "."

\* a paint that drew a printable byte as itself, a control byte as "." and
\* a byte above 0x7E as "."
C12_Witness ==
    /\ lastEvent = "paint"
    /\ \E op \in AsciiOps : byteDrawn(op) \in 32..126 /\ op.text # <<".">>
    /\ \E op \in AsciiOps : byteDrawn(op) < 32 /\ op.text = <<".">>
    /\ \E op \in AsciiOps : byteDrawn(op) > 126 /\ op.text = <<".">>

\* the place of a part of the view in the draw order the claim states
ClaimedRank(part) ==
    CASE part = "adr" -> 1 [] part = "adrSep" -> 2 [] part = "hex" -> 3
      [] part = "hexSep" -> 4 [] part = "ascii" -> 5 [] part = "selection" -> 6
      [] part = "caret" -> 7

\* the place of a part of the view in the draw order of paintEvent, the hex
\* and the ASCII text sharing one place
PaintRank(part) ==
    CASE part = "selection" -> 1 [] part = "adr" -> 2 [] part = "adrSep" -> 3
      [] part = "hex" -> 4 [] part = "ascii" -> 4 [] part = "hexSep" -> 5
      [] part = "caret" -> 6

\* the parts of the view the last paint drew, one per draw operation
PaintedParts == [k \in 1..Len(painted) |-> painted[k].part]

\* C13 as claimed: a paint of a non-empty buffer draws address text, address
\* separator, hex text, hex/ASCII separator, ASCII text, selection rectangles
\* and caret in this order
C13_OrderAsClaimed ==
    \A j \in 1..Len(painted), k \in 1..Len(painted) :
        j < k => ClaimedRank(painted[j].part) <= ClaimedRank(painted[k].part)

\* C13 amended: a paint of a non-empty buffer draws, in this order, the
\* selection rectangles (if a selection is active), the address text of each
\* row shown, the address separator, for each byte of each row shown its hex
\* text immediately followed by its ASCII character on the same line, the
\* hex/ASCII separator, and the caret (if no selection)
C13_PaintOrder ==
    (lastEvent = "paint" /\ rowCount > 0) =>
        /\ \A j \in 1..Len(painted), k \in 1..Len(painted) :
               j < k => PaintRank(painted[j].part) <= PaintRank(painted[k].part)
        /\ \A k \in 1..Len(painted) :
               /\ PaintedParts[k] = "hex" =>
                      /\ k < Len(painted) /\ PaintedParts[k + 1] = "ascii"
                      /\ painted[k + 1].args[2] = painted[k].args[2]
                      /\ (painted[k + 1].args[1] + hValue * charW - asciiStartX) * 4
                             = painted[k].args[1] + hValue * charW - hexStartX
               /\ PaintedParts[k] = "ascii" => k > 1 /\ PaintedParts[k - 1] = "hex"
        /\ Cardinality({k \in 1..Len(painted) : PaintedParts[k] = "adr"})
               = paintRowShown(chunks, vpH)
        /\ Cardinality({k \in 1..Len(painted) : PaintedParts[k] = "adrSep"}) = 1
        /\ Cardinality({k \in 1..Len(painted) : PaintedParts[k] = "hexSep"}) = 1
        /\ (selEndPos # NoSel) <=> PaintedParts[1] = "selection"
        /\ (selEndPos = NoSel) <=> PaintedParts[Len(painted)] = "caret"

\* the paint of a selection over several rows: the rectangles come first,
\* the hex/ASCII separator last
C13_Witness ==
    /\ lastEvent = "paint"
    /\ selEndPos # NoSel /\ selEndPos.y # cursorPos.y
    /\ PaintedParts[1] = "selection"
    /\ PaintedParts[Len(painted)] = "hexSep"
    /\ \E k \in 1..Len(painted) : PaintedParts[k] = "ascii" /\ PaintedParts[k + 1] = "hex"

\* the rows (from 0) of a chunk list that are in the decoded state
Decoded(chs) == {i - 1 : i \in {j \in 1..Len(chs) : chs[j].readed}}

\* the rows a step decodes: a load starts from a chunk list with no row
\* decoded
NewlyDecoded ==
    IF lastEvent' = "showData" THEN Decoded(chunks')
    ELSE Decoded(chunks') \ Decoded(chunks)

\* the rows a paint draws under the scroll value and the viewport of the step
PaintedRange == vValue..(vValue + paintRowShown(chunks, vpH) - 1)

\* C14 as claimed, step by step: a paint decodes rows of the range it draws
\* only, and no other operation decodes a row
C14_OnlyPaintDecodesStep ==
    IF lastEvent' = "paint" THEN NewlyDecoded \subseteq PaintedRange
    ELSE NewlyDecoded = {}

\* C14 as claimed: a row is decoded only by a paint that draws it, so no row
\* is decoded right after a load
C14_OnlyPaintDecodes ==
    /\ [](lastEvent = "showData" => Decoded(chunks) = {})
    /\ [][C14_OnlyPaintDecodesStep]_vars

\* the rows each operation decodes
C14_Step ==
    CASE lastEvent' = "paint" ->
             /\ NewlyDecoded \subseteq PaintedRange
             /\ rowCount > 0 => PaintedRange \subseteq Decoded(chunks')
      [] lastEvent' = "showData" ->
             NewlyDecoded = (IF Len(chunks') > 0 THEN {0} ELSE {})
      [] lastEvent' = "resize" -> NewlyDecoded \subseteq {0}
      [] lastEvent' = "mousePress" ->
             /\ NewlyDecoded \subseteq {cursorPos'.y}
             /\ rowCount > 0 => cursorPos'.y \in Decoded(chunks')
      [] lastEvent' = "mouseMove" ->
             /\ NewlyDecoded \subseteq {selEndPos'.y}
             /\ rowCount > 0 => selEndPos'.y \in Decoded(chunks')
      [] OTHER -> NewlyDecoded = {}

\* C14 amended: a row is decoded only by an operation that reads it: a paint
\* decodes the rows verticalScroll .. verticalScroll+rowsShown-1 it draws,
\* _adjust decodes row 0 of a non-empty buffer on every showData and resize,
\* _posToRC decodes the one row a press or a left-button move maps to after
\* clamping, and a scroll or a move without the left button decodes nothing
C14_DecodingByReads == [][C14_Step]_vars

\* a press below the rows shown decoded the last row of a buffer whose row
\* before the last was never read, so no paint drew the last row
C14_Witness ==
    /\ lastEvent = "mousePress"
    /\ rowCount > 3
    /\ cursorPos.y = rowCount - 1
    /\ Decoded(chunks) = {0, rowCount - 1}

\* the hex-column and ASCII-column text draws of the last paint
GlyphOps ==
    {painted[k] : k \in {j \in 1..Len(painted) : painted[j].part \in {"hex", "ascii"}}}

\* the coordinate of the byte a text draw of the last paint stands for
byteCoordDrawn(op) ==
    QPoint(IF op.part = "ascii"
           THEN (op.args[1] + hValue * charW - asciiStartX) \div charW
           ELSE (op.args[1] + hValue * charW - hexStartX) \div (4 * charW),
           (op.args[2] \div charH) - 1 + vValue)

\* pixel positions on the glyphs of a text draw: the first and the last
\* pixel column of the two hex digits or of the one character, just above
\* the baseline and half a font height above it
GlyphPixels(op) ==
    {<<px, py>> : px \in {op.args[1],
                          op.args[1] + (IF op.part = "ascii" THEN charW ELSE 2 * charW) - 1},
                  py \in {op.args[2] - 1, op.args[2] - (fontHeight \div 2)}}

\* C15 as claimed: under every vertical and horizontal scroll value a pointer
\* position on the glyphs paint drew for the byte at (row r, column c) is
\* mapped by _posToRC to (c, r) and to the pane of the glyphs
C15_PointerOnGlyph ==
    \A op \in GlyphOps : \A pos \in GlyphPixels(op) :
        posToRC(pos[1], pos[2], chunks, data, vValue)
            = [rc |-> byteCoordDrawn(op), isAscii |-> op.part = "ascii"]

\* viewport heights from no room for a row to room for more rows than any
\* buffer has
ProbeHeights == 0..(8 * charH)

\* the rows a paint reads under a scroll value and a viewport height
RowsPaintReads(v, height) == {v + i : i \in 0..(paintRowShown(chunks, height) - 1)}

\* C16: every row index read is in 0..rowCount-1: the rows verticalScroll + i,
\* 0 <= i < rowsShown, a paint of the state reads; the row _posToRC reads for
\* any pointer position; row 0, which _adjust reads on a non-empty buffer
\* only; the vertical scroll value stays in the range _adjust set, which ends
\* at rowCount - rowsShown. After a load the same holds for the range _adjust
\* sets for every viewport height and every scroll value in it
C16_ReadsInRange ==
    /\ vValue \in 0..vMax
    /\ vMax = Max(0, rowCount - rowShownFor(vpH))
    /\ RowsPaintReads(vValue, vpH) \subseteq 0..(rowCount - 1)
    /\ lastEvent = "paint" => Decoded(chunks) \subseteq 0..(rowCount - 1)
    /\ rowCount > 0 =>
           /\ \A py \in PointerYs \cup ProbeYs :
                  clampRow(rawRow(py, vValue), rowCount) \in 0..(rowCount - 1)
           /\ Decoded(adjustChunks(chunks, data)) \subseteq 0..(rowCount - 1)
    /\ rowCount = 0 => adjustChunks(chunks, data) = <<>>
    /\ lastEvent = "showData" =>
           \A height \in ProbeHeights :
               \A v \in 0..adjustVMax(chunks, height) :
                   /\ RowsPaintReads(v, height) \subseteq 0..(rowCount - 1)
                   /\ setRangeValue(vValue, rowCount - rowShownFor(height))
                          \in 0..adjustVMax(chunks, height)

\* a paint at the largest scroll value read the last row of a buffer with
\* more rows than the viewport shows
C16_Witness ==
    /\ lastEvent = "paint"
    /\ vMax > 0 /\ vValue = vMax
    /\ rowCount - 1 \in RowsPaintReads(vValue, vpH)
    /\ chunks[rowCount].readed
    /\ Cardinality(RowsPaintReads(vValue, vpH)) < rowCount

====
